---- MODULE Spec2Model ----
(***************************************************************************)
(* Credential lifecycle of the AstraX backend (src/backend/main.py):       *)
(* signup, verify-email, login, password-reset request and confirm, over   *)
(* the users table of src/backend/models.py.                               *)
(*                                                                         *)
(* Time is counted in minutes.  Strings that the code slices, strips or    *)
(* formats (passwords, codes) are sequences of one-character strings.      *)
(* An optional column is None (the empty tuple) or Some(v) (a 1-tuple).    *)
(***************************************************************************)
EXTENDS Integers, Sequences, FiniteSets, TLC

VARIABLES
    users,      \* the users table, a function from the registered emails to rows
    now,        \* datetime.now(timezone.utc), in minutes
    resp,       \* the last request and the response it got
    hist,       \* per email: what the requests made so far have been (history)
    sessions,   \* per worker thread: the request it is serving, between read and commit
    tally       \* per email: rows inserted, and resets confirmed with the latest reset code (history)

vars == <<users, now, resp, hist, sessions, tally>>

----------------------------------------------------------------------------
\* Bound of the model: the clock stops at MaxTime
MaxTime == 11

\* Program constants
PASSWORD_MAX == 72
CODE_MIN == 100000
CODE_MAX == 999999
CODE_TTL == 10

\* Inputs.  Callers name two addresses; one of them signs up, the other
\* never does.
SignupEmails == {"a@x.com"}
Emails == SignupEmails \cup {"b@x.com"}
Workers == {"w1", "w2"}
Salts == {"s1", "s2"}
TickSteps == {CODE_TTL, CODE_TTL + 1}

None == <<>>
Some(x) == <<x>>

\* A password longer than PASSWORD_MAX characters, ending in c
LongPassword(c) == [i \in 1..(PASSWORD_MAX + 1) |-> IF i <= PASSWORD_MAX THEN "x" ELSE c]
Passwords == {<<"p", "w", "1">>, LongPassword("a"), LongPassword("b")}

----------------------------------------------------------------------------
\* HTTP statuses and the details of the HTTPExceptions.  The source's
\* messages are Russian; they are given here in translation:
\*   "Nevernyj kod", "Srok dejstvija koda istjok",
\*   "Pol'zovatel' uzhe zaregistrirovan", "Nevernyj email ili parol'",
\*   "Ne udalos' otpravit' pis'mo s kodom",
\*   "Esli email sushhestvuet - kod otpravlen", "Kod otpravlen", "Parol' izmenjon"
InvalidCode == "Invalid code"
CodeExpired == "Code has expired"
AlreadyRegistered == "User is already registered"
InvalidCredentials == "Invalid email or password"
NotificationFailed == "Could not send the email with the code"
InternalServerError == "Internal Server Error"
MsgIfExistsSent == "If the email exists, the code was sent"
MsgCodeSent == "Code sent"
MsgPasswordChanged == "Password changed"

HTTPException(status, detail) == [status |-> status, body |-> [detail |-> detail]]

----------------------------------------------------------------------------
\* str.strip(): drops leading and trailing whitespace
Whitespace == {" ", "\t", "\n"}

RECURSIVE lstrip(_)
lstrip(s) == IF s # <<>> /\ Head(s) \in Whitespace THEN lstrip(Tail(s)) ELSE s

RECURSIVE rstrip(_)
rstrip(s) ==
    IF s # <<>> /\ s[Len(s)] \in Whitespace THEN rstrip(SubSeq(s, 1, Len(s) - 1)) ELSE s

strip(s) == rstrip(lstrip(s))

\* f"{n}" for a non-negative integer
Digit(d) == SubSeq(<<"0", "1", "2", "3", "4", "5", "6", "7", "8", "9">>, d + 1, d + 1)

RECURSIVE format_int(_)
format_int(n) == IF n < 10 THEN Digit(n) ELSE format_int(n \div 10) \o Digit(n % 10)

\* randint(lo, hi): the values of lo..hi the model draws
randint(lo, hi) == {lo, hi}

\* s[:n]
Slice(s, n) == SubSeq(s, 1, IF Len(s) < n THEN Len(s) ELSE n)

\* pwd_context (pbkdf2_sha256): the checksum is a function of salt and
\* secret that has no collisions
pwd_hash(secret, salt) == [salt |-> salt, checksum |-> <<salt, secret>>]
pwd_verify(secret, h) == h.checksum = <<h.salt, secret>>

\* Truthiness of an optional string column: None and "" are falsy
Falsy(opt) == opt = None \/ opt[1] = <<>>

----------------------------------------------------------------------------
\* The codes a caller may supply
Codes == {format_int(n) : n \in randint(CODE_MIN, CODE_MAX)}
SuppliedCodes ==
    Codes \cup {<<" ">> \o format_int(CODE_MIN) \o <<"\n">>}

\* A row of the users table.  referral_code, created_at and is_admin are
\* written at most once, at creation, and read by no handler; they are left out.
User(id, email, password_hash, code, expires_at) ==
    [id |-> id, email |-> email, password_hash |-> password_hash,
     verification_code |-> Some(code), verification_expires_at |-> Some(expires_at),
     is_verified |-> FALSE, reset_code |-> None, reset_expires_at |-> None]

\* An email the transport was asked to send, delivered or not
Mail(to, code, purpose, delivered) ==
    Some([to |-> to, code |-> code, purpose |-> purpose, delivered |-> delivered])

\* What a handler decides: the table after it, the response, and the mail
Outcome(db, r, mail) == [db |-> db, status |-> r.status, body |-> r.body, mail |-> mail]
Ok(body) == [status |-> 200, body |-> body]

----------------------------------------------------------------------------
\* verify_email with the consumed code left in place
verify_email_keeps_code(db, t, email, code) ==
    IF email \notin DOMAIN db \/ Falsy(db[email].verification_code)
    THEN Outcome(db, HTTPException(400, InvalidCode), None)
    ELSE IF db[email].verification_expires_at # None
            /\ db[email].verification_expires_at[1] < t
    THEN Outcome(db, HTTPException(400, CodeExpired), None)
    ELSE IF db[email].verification_code[1] # strip(code)
    THEN Outcome(db, HTTPException(400, InvalidCode), None)
    ELSE Outcome([db EXCEPT ![email].is_verified = TRUE], Ok([ok |-> TRUE]), None)

\* verify_email with the code compared before the expiry is checked
verify_email_compares_first(db, t, email, code) ==
    IF email \notin DOMAIN db \/ Falsy(db[email].verification_code)
    THEN Outcome(db, HTTPException(400, InvalidCode), None)
    ELSE IF db[email].verification_code[1] # strip(code)
    THEN Outcome(db, HTTPException(400, InvalidCode), None)
    ELSE IF db[email].verification_expires_at # None
            /\ db[email].verification_expires_at[1] < t
    THEN Outcome(db, HTTPException(400, CodeExpired), None)
    ELSE Outcome([db EXCEPT ![email].is_verified = TRUE,
                            ![email].verification_code = None,
                            ![email].verification_expires_at = None],
                 Ok([ok |-> TRUE]), None)

\* verify_email that clears the code and leaves its expiry
verify_email_keeps_expiry(db, t, email, code) ==
    IF email \notin DOMAIN db \/ Falsy(db[email].verification_code)
    THEN Outcome(db, HTTPException(400, InvalidCode), None)
    ELSE IF db[email].verification_expires_at # None
            /\ db[email].verification_expires_at[1] < t
    THEN Outcome(db, HTTPException(400, CodeExpired), None)
    ELSE IF db[email].verification_code[1] # strip(code)
    THEN Outcome(db, HTTPException(400, InvalidCode), None)
    ELSE Outcome([db EXCEPT ![email].is_verified = TRUE,
                            ![email].verification_code = None],
                 Ok([ok |-> TRUE]), None)

\* verify_email that withdraws the pending code on a wrong guess
verify_email_burns_code(db, t, email, code) ==
    IF email \notin DOMAIN db \/ Falsy(db[email].verification_code)
    THEN Outcome(db, HTTPException(400, InvalidCode), None)
    ELSE IF db[email].verification_expires_at # None
            /\ db[email].verification_expires_at[1] < t
    THEN Outcome(db, HTTPException(400, CodeExpired), None)
    ELSE IF db[email].verification_code[1] # strip(code)
    THEN Outcome([db EXCEPT ![email].verification_code = None,
                            ![email].verification_expires_at = None],
                 HTTPException(400, InvalidCode), None)
    ELSE Outcome([db EXCEPT ![email].is_verified = TRUE,
                            ![email].verification_code = None,
                            ![email].verification_expires_at = None],
                 Ok([ok |-> TRUE]), None)

verify_email_handler(db, t, email, code) ==
    IF email \notin DOMAIN db \/ Falsy(db[email].verification_code)
    THEN Outcome(db, HTTPException(400, InvalidCode), None)
    ELSE IF db[email].verification_expires_at # None
            /\ db[email].verification_expires_at[1] < t
    THEN Outcome(db, HTTPException(400, CodeExpired), None)
    ELSE IF db[email].verification_code[1] # strip(code)
    THEN Outcome(db, HTTPException(400, InvalidCode), None)
    ELSE Outcome([db EXCEPT ![email].is_verified = TRUE,
                            ![email].verification_code = None,
                            ![email].verification_expires_at = None],
                 Ok([ok |-> TRUE]), None)

\* password_reset_request that sends a code to an address with no account
password_reset_request_mails_unknown(db, t, email, n, smtp_ok) ==
    LET code == format_int(n)
        db2 == IF email \in DOMAIN db
               THEN [db EXCEPT ![email].reset_code = Some(code),
                               ![email].reset_expires_at = Some(t + CODE_TTL)]
               ELSE db
    IN  IF smtp_ok
        THEN Outcome(db2, Ok([ok |-> TRUE, message |-> MsgCodeSent]),
                     Mail(email, code, "reset", TRUE))
        ELSE Outcome(db2, [status |-> 500, body |-> [text |-> InternalServerError]],
                     Mail(email, code, "reset", FALSE))

\* password_reset_request that leaves a pending reset code in place
password_reset_request_keeps_pending(db, t, email, n, smtp_ok) ==
    IF email \notin DOMAIN db
    THEN Outcome(db, Ok([ok |-> TRUE, message |-> MsgIfExistsSent]), None)
    ELSE LET code == IF Falsy(db[email].reset_code)
                     THEN format_int(n) ELSE db[email].reset_code[1]
             db2 == [db EXCEPT ![email].reset_code = Some(code),
                               ![email].reset_expires_at = Some(t + CODE_TTL)]
         IN  IF smtp_ok
             THEN Outcome(db2, Ok([ok |-> TRUE, message |-> MsgCodeSent]),
                          Mail(email, code, "reset", TRUE))
             ELSE Outcome(db2, [status |-> 500, body |-> [text |-> InternalServerError]],
                          Mail(email, code, "reset", FALSE))

password_reset_request_handler(db, t, email, n, smtp_ok) ==
    IF email \notin DOMAIN db
    THEN Outcome(db, Ok([ok |-> TRUE, message |-> MsgIfExistsSent]), None)
    ELSE LET code == format_int(n)
             db2 == [db EXCEPT ![email].reset_code = Some(code),
                               ![email].reset_expires_at = Some(t + CODE_TTL)]
         IN  IF smtp_ok
             THEN Outcome(db2, Ok([ok |-> TRUE, message |-> MsgCodeSent]),
                          Mail(email, code, "reset", TRUE))
             ELSE Outcome(db2, [status |-> 500, body |-> [text |-> InternalServerError]],
                          Mail(email, code, "reset", FALSE))

\* password_reset_confirm that hashes the new password without bounding it
password_reset_confirm_unbounded(db, t, email, code, new_password, salt) ==
    IF email \notin DOMAIN db \/ Falsy(db[email].reset_code)
    THEN Outcome(db, HTTPException(400, InvalidCode), None)
    ELSE IF db[email].reset_expires_at # None /\ db[email].reset_expires_at[1] < t
    THEN Outcome(db, HTTPException(400, CodeExpired), None)
    ELSE IF db[email].reset_code[1] # strip(code)
    THEN Outcome(db, HTTPException(400, InvalidCode), None)
    ELSE Outcome([db EXCEPT ![email].password_hash = pwd_hash(new_password, salt),
                            ![email].reset_code = None,
                            ![email].reset_expires_at = None],
                 Ok([ok |-> TRUE, message |-> MsgPasswordChanged]), None)

password_reset_confirm_handler(db, t, email, code, new_password, salt) ==
    IF email \notin DOMAIN db \/ Falsy(db[email].reset_code)
    THEN Outcome(db, HTTPException(400, InvalidCode), None)
    ELSE IF db[email].reset_expires_at # None /\ db[email].reset_expires_at[1] < t
    THEN Outcome(db, HTTPException(400, CodeExpired), None)
    ELSE IF db[email].reset_code[1] # strip(code)
    THEN Outcome(db, HTTPException(400, InvalidCode), None)
    ELSE Outcome([db EXCEPT ![email].password_hash =
                                pwd_hash(Slice(new_password, PASSWORD_MAX), salt),
                            ![email].reset_code = None,
                            ![email].reset_expires_at = None],
                 Ok([ok |-> TRUE, message |-> MsgPasswordChanged]), None)

\* Variants of signup: one that may store the supplied password's hash on a
\* resend (rehash), skip the check of is_verified (check_verified = FALSE),
\* or undo its write when the email cannot be sent (rollback)
signup_branches(db, t, email, password, n, salt, smtp_ok, rehash, check_verified, rollback) ==
    LET code == format_int(n)
        expires_at == t + CODE_TTL
        hash == pwd_hash(Slice(password, PASSWORD_MAX), salt)
    IN  IF check_verified /\ email \in DOMAIN db /\ db[email].is_verified
        THEN Outcome(db, HTTPException(400, AlreadyRegistered), None)
        ELSE IF email \in DOMAIN db
        THEN LET db1 == [db EXCEPT ![email].verification_code = Some(code),
                                   ![email].verification_expires_at = Some(expires_at)]
                 db2 == IF rehash THEN [db1 EXCEPT ![email].password_hash = hash] ELSE db1
             IN  IF smtp_ok
                 THEN Outcome(db2, Ok([ok |-> TRUE, id |-> db[email].id]),
                              Mail(email, code, "verification", TRUE))
                 ELSE Outcome(IF rollback THEN db ELSE db2,
                              HTTPException(500, NotificationFailed),
                              Mail(email, code, "verification", FALSE))
        ELSE LET id == Cardinality(DOMAIN db) + 1
                 user == User(id, email, hash, code, expires_at)
                 db2 == [e \in DOMAIN db \cup {email} |-> IF e = email THEN user ELSE db[e]]
             IN  IF smtp_ok
                 THEN Outcome(db2, Ok([ok |-> TRUE, id |-> id]),
                              Mail(email, code, "verification", TRUE))
                 ELSE Outcome(IF rollback THEN db ELSE db2,
                              HTTPException(500, NotificationFailed),
                              Mail(email, code, "verification", FALSE))

\* signup whose resend also stores the hash of the password supplied
signup_rehashes_on_resend(db, t, email, password, n, salt, smtp_ok) ==
    signup_branches(db, t, email, password, n, salt, smtp_ok, TRUE, TRUE, FALSE)

\* signup that resends to any existing account, verified or not
signup_resends_to_verified(db, t, email, password, n, salt, smtp_ok) ==
    signup_branches(db, t, email, password, n, salt, smtp_ok, FALSE, FALSE, FALSE)

\* signup that undoes its write when the email cannot be sent
signup_rolls_back(db, t, email, password, n, salt, smtp_ok) ==
    signup_branches(db, t, email, password, n, salt, smtp_ok, FALSE, TRUE, TRUE)

\* signup that refuses every existing account, verified or not
signup_rejects_existing(db, t, email, password, n, salt, smtp_ok) ==
    IF email \in DOMAIN db
    THEN Outcome(db, HTTPException(400, AlreadyRegistered), None)
    ELSE signup_branches(db, t, email, password, n, salt, smtp_ok, FALSE, TRUE, FALSE)

signup_handler(db, t, email, password, n, salt, smtp_ok) ==
    LET code == format_int(n)
        expires_at == t + CODE_TTL
    IN  IF email \in DOMAIN db /\ db[email].is_verified
        THEN Outcome(db, HTTPException(400, AlreadyRegistered), None)
        ELSE IF email \in DOMAIN db /\ ~db[email].is_verified
        THEN LET db2 == [db EXCEPT ![email].verification_code = Some(code),
                                   ![email].verification_expires_at = Some(expires_at)]
             IN  IF smtp_ok
                 THEN Outcome(db2, Ok([ok |-> TRUE, id |-> db[email].id]),
                              Mail(email, code, "verification", TRUE))
                 ELSE Outcome(db2, HTTPException(500, NotificationFailed),
                              Mail(email, code, "verification", FALSE))
        ELSE LET id == Cardinality(DOMAIN db) + 1
                 user == User(id, email, pwd_hash(Slice(password, PASSWORD_MAX), salt),
                              code, expires_at)
                 db2 == [e \in DOMAIN db \cup {email} |-> IF e = email THEN user ELSE db[e]]
             IN  IF smtp_ok
                 THEN Outcome(db2, Ok([ok |-> TRUE, id |-> id]),
                              Mail(email, code, "verification", TRUE))
                 ELSE Outcome(db2, HTTPException(500, NotificationFailed),
                              Mail(email, code, "verification", FALSE))

\* login that tells an unknown email from a wrong password
login_reveals_absent(db, email, password) ==
    IF email \notin DOMAIN db
    THEN Outcome(db, HTTPException(404, "User not found"), None)
    ELSE IF ~pwd_verify(Slice(password, PASSWORD_MAX), db[email].password_hash)
    THEN Outcome(db, HTTPException(401, InvalidCredentials), None)
    ELSE Outcome(db, Ok([ok |-> TRUE, id |-> db[email].id, email |-> db[email].email]), None)

\* login that refuses an account that is not verified
login_requires_verified(db, email, password) ==
    IF email \notin DOMAIN db
    THEN Outcome(db, HTTPException(401, InvalidCredentials), None)
    ELSE IF ~pwd_verify(Slice(password, PASSWORD_MAX), db[email].password_hash)
    THEN Outcome(db, HTTPException(401, InvalidCredentials), None)
    ELSE IF ~db[email].is_verified
    THEN Outcome(db, HTTPException(403, "Email is not verified"), None)
    ELSE Outcome(db, Ok([ok |-> TRUE, id |-> db[email].id, email |-> db[email].email]), None)

\* login that stores a fresh hash of the password it has just verified
login_rehashes(db, email, password) ==
    IF email \notin DOMAIN db
    THEN Outcome(db, HTTPException(401, InvalidCredentials), None)
    ELSE IF ~pwd_verify(Slice(password, PASSWORD_MAX), db[email].password_hash)
    THEN Outcome(db, HTTPException(401, InvalidCredentials), None)
    ELSE Outcome([db EXCEPT ![email].password_hash =
                     pwd_hash(Slice(password, PASSWORD_MAX),
                              CHOOSE x \in Salts : x # db[email].password_hash.salt)],
                 Ok([ok |-> TRUE, id |-> db[email].id, email |-> db[email].email]), None)

login_handler(db, email, password) ==
    IF email \notin DOMAIN db
    THEN Outcome(db, HTTPException(401, InvalidCredentials), None)
    ELSE IF ~pwd_verify(Slice(password, PASSWORD_MAX), db[email].password_hash)
    THEN Outcome(db, HTTPException(401, InvalidCredentials), None)
    ELSE Outcome(db, Ok([ok |-> TRUE, id |-> db[email].id, email |-> db[email].email]), None)

----------------------------------------------------------------------------
\* The request just served and its response
Response(op, email, arg, o) ==
    [op |-> op, email |-> email, arg |-> arg,
     status |-> o.status, body |-> o.body, mail |-> o.mail]

\* What a caller sees of a response
View(o) == [status |-> o.status, body |-> o.body]

NoHist == [created_pw |-> None, pw_reset |-> FALSE, consumed |-> None]

\* A worker thread with no request
Idle == [state |-> "idle"]

Init ==
    /\ users = <<>>
    /\ now = 0
    /\ resp = [op |-> "none", email |-> "", arg |-> <<>>,
               status |-> 0, body |-> [ok |-> TRUE], mail |-> None]
    /\ hist = [e \in Emails |-> NoHist]
    /\ sessions = [w \in Workers |-> Idle]
    /\ tally = [e \in Emails |-> [inserts |-> 0, confirms |-> 0]]

Serve(o, r) ==
    /\ users' = o.db
    /\ resp' = r
    /\ UNCHANGED <<now, sessions, tally>>

signup ==
    \E email \in SignupEmails, password \in Passwords, n \in randint(CODE_MIN, CODE_MAX),
       salt \in Salts, smtp_ok \in BOOLEAN :
        LET o == signup_handler(users, now, email, password, n, salt, smtp_ok)
        IN  /\ Serve(o, Response("signup", email, password, o))
            /\ hist' = [hist EXCEPT ![email] =
                           IF email \notin DOMAIN users
                           THEN [NoHist EXCEPT !.created_pw = Some(password)]
                           ELSE [@ EXCEPT !.consumed = None]]

verify_email ==
    \E email \in Emails, code \in SuppliedCodes :
        LET o == verify_email_handler(users, now, email, code)
        IN  /\ Serve(o, Response("verify_email", email, code, o))
            /\ hist' = IF o.status = 200
                       THEN [hist EXCEPT ![email].consumed = Some(strip(code))]
                       ELSE hist

login ==
    \E email \in Emails, password \in Passwords :
        LET o == login_handler(users, email, password)
        IN  /\ Serve(o, Response("login", email, password, o))
            /\ UNCHANGED hist

password_reset_request ==
    \E email \in Emails, n \in randint(CODE_MIN, CODE_MAX), smtp_ok \in BOOLEAN :
        LET o == password_reset_request_handler(users, now, email, n, smtp_ok)
        IN  /\ Serve(o, Response("password_reset_request", email, <<>>, o))
            /\ UNCHANGED hist

password_reset_confirm ==
    \E email \in Emails, code \in SuppliedCodes, new_password \in Passwords, salt \in Salts :
        LET o == password_reset_confirm_handler(users, now, email, code, new_password, salt)
        IN  /\ Serve(o, Response("password_reset_confirm", email, code, o))
            /\ hist' = IF o.status = 200
                       THEN [hist EXCEPT ![email].pw_reset = TRUE]
                       ELSE hist

Tick ==
    \E d \in TickSteps :
        /\ now + d <= MaxTime
        /\ now' = now + d
        /\ UNCHANGED <<users, resp, hist, sessions, tally>>

Next ==
    \/ signup
    \/ verify_email
    \/ login
    \/ password_reset_request
    \/ password_reset_confirm
    \/ Tick

Spec == Init /\ [][Next]_vars

----------------------------------------------------------------------------
\* Requests served by concurrent worker threads.  Each request has its own
\* Session: it reads the row, decides on what it read, and its commit
\* executes one statement on the table as it then is.  Between a request's
\* read and its commit other requests may read and commit.  The history
\* hist is kept under Spec only.

\* Inputs of the concurrent requests
ConcEmails == SignupEmails
ConcPasswords == {<<"p", "w", "1">>, LongPassword("a")}
ConcSalts == {"s1"}

\* UPDATE with every column of the row, changed or not
update_whole_row(loaded, row) == row

\* The SET clause of the UPDATE a commit flushes: the columns whose value is
\* not the one that was loaded
update_statement(loaded, row) ==
    [c \in {c \in DOMAIN row : row[c] # loaded[c]} |-> row[c]]

\* A users table with no unique index on email
no_unique_index(db, email) == FALSE

\* Whether an INSERT of a row for email violates the unique index on email
unique_violation(db, email) == email \in DOMAIN db

\* The statement a handler's commit flushes, given the table it read and
\* the table it decided on
Statement(db, o, email) ==
    IF email \in DOMAIN db
    THEN [kind |-> "update", set |-> update_statement(db[email], o.db[email])]
    ELSE [kind |-> "insert", row |-> o.db[email]]

\* The table after a statement
Execute(db, email, stmt) ==
    IF stmt.kind = "update"
    THEN [db EXCEPT ![email] =
             [c \in DOMAIN @ |-> IF c \in DOMAIN stmt.set THEN stmt.set[c] ELSE @[c]]]
    ELSE [e \in DOMAIN db \cup {email} |->
             IF e = email
             THEN [stmt.row EXCEPT !.id = Cardinality(DOMAIN db \cup {email})]
             ELSE db[e]]

\* A worker takes a request and reads.  A request that writes nothing is
\* answered at once; one that writes waits for its commit.
Begin(w, op, email, arg, o) ==
    /\ sessions[w] = Idle
    /\ IF o.db = users
       THEN /\ resp' = Response(op, email, arg, o)
            /\ UNCHANGED sessions
       ELSE /\ sessions' = [sessions EXCEPT ![w] =
                   [state |-> "pending", op |-> op, email |-> email, arg |-> arg,
                    stmt |-> Statement(users, o, email),
                    status |-> o.status, body |-> o.body, mail |-> o.mail,
                    latest |-> TRUE]]
            /\ UNCHANGED resp
    /\ UNCHANGED <<users, now, hist, tally>>

BeginSignup ==
    \E w \in Workers, email \in ConcEmails, password \in ConcPasswords,
       n \in randint(CODE_MIN, CODE_MAX), salt \in ConcSalts, smtp_ok \in BOOLEAN :
        Begin(w, "signup", email, password,
              signup_handler(users, now, email, password, n, salt, smtp_ok))

BeginVerifyEmail ==
    \E w \in Workers, email \in ConcEmails, code \in SuppliedCodes :
        Begin(w, "verify_email", email, code, verify_email_handler(users, now, email, code))

BeginLogin ==
    \E w \in Workers, email \in ConcEmails, password \in ConcPasswords :
        Begin(w, "login", email, password, login_handler(users, email, password))

BeginPasswordResetRequest ==
    \E w \in Workers, email \in ConcEmails, n \in randint(CODE_MIN, CODE_MAX),
       smtp_ok \in BOOLEAN :
        Begin(w, "password_reset_request", email, <<>>,
              password_reset_request_handler(users, now, email, n, smtp_ok))

BeginPasswordResetConfirm ==
    \E w \in Workers, email \in ConcEmails, code \in SuppliedCodes,
       new_password \in ConcPasswords, salt \in ConcSalts :
        Begin(w, "password_reset_confirm", email, code,
              password_reset_confirm_handler(users, now, email, code, new_password, salt))

\* The sessions after worker w's commit.  A committed password reset
\* request issues a new reset code: what the other requests on that email
\* have read is no longer the latest code (the mark is history).
Committed(w) ==
    [v \in Workers |->
        IF v = w THEN Idle
        ELSE IF /\ sessions[w].op = "password_reset_request"
                /\ sessions[v].state = "pending"
                /\ sessions[v].email = sessions[w].email
        THEN [sessions[v] EXCEPT !.latest = FALSE]
        ELSE sessions[v]]

\* db.commit(), then the email if any, then the response.  An INSERT that
\* violates the unique index raises out of the handler: no row, no email.
Commit ==
    \E w \in Workers :
        LET s == sessions[w]
        IN  /\ s.state = "pending"
            /\ sessions' = Committed(w)
            /\ IF s.stmt.kind = "insert" /\ unique_violation(users, s.email)
               THEN /\ resp' = [op |-> s.op, email |-> s.email, arg |-> s.arg,
                                status |-> 500, body |-> [text |-> InternalServerError],
                                mail |-> None]
                    /\ UNCHANGED <<users, tally>>
               ELSE /\ users' = Execute(users, s.email, s.stmt)
                    /\ resp' = [op |-> s.op, email |-> s.email, arg |-> s.arg,
                                status |-> s.status, body |-> s.body, mail |-> s.mail]
                    /\ tally' = [tally EXCEPT ![s.email] =
                                    IF s.stmt.kind = "insert"
                                    THEN [@ EXCEPT !.inserts = @ + 1]
                                    ELSE IF s.op = "password_reset_confirm" /\ s.latest
                                    THEN [@ EXCEPT !.confirms = @ + 1]
                                    ELSE IF s.op = "password_reset_request"
                                    THEN [@ EXCEPT !.confirms = 0]
                                    ELSE @]
            /\ UNCHANGED <<now, hist>>

NextConc ==
    \/ BeginSignup
    \/ BeginVerifyEmail
    \/ BeginLogin
    \/ BeginPasswordResetRequest
    \/ BeginPasswordResetConfirm
    \/ Commit

SpecConc == Init /\ [][NextConc]_vars

----------------------------------------------------------------------------
\* Claims.  A claim about what a call returns is stated of the handler's
\* decision in every reachable state; its witness is a state in which such
\* a call has been served.

HasAccount(e) == e \in DOMAIN users

\* C1: once VerifyEmail has succeeded for an email with code c, and no signup
\* for that email has been made since, VerifyEmail for that email with c
\* fails with InvalidCode (not CodeExpired, not success) and changes nothing.
C1_RepeatedVerifyIsInvalidCode ==
    \A e \in Emails : \A code \in SuppliedCodes :
        (hist[e].consumed # None /\ strip(code) = hist[e].consumed[1]) =>
            LET o == verify_email_handler(users, now, e, code)
            IN  o.status = 400 /\ o.body.detail = InvalidCode /\ o.db = users

\* A VerifyEmail repeated with the code that was consumed has been refused
C1_Witness ==
    /\ resp.op = "verify_email"
    /\ resp.status = 400
    /\ resp.body.detail = InvalidCode
    /\ hist[resp.email].consumed = Some(strip(resp.arg))

\* C2: in both flows a pending code has an expiry, and a call made after it
\* returns CodeExpired whether the supplied code is right or wrong, and
\* leaves the table unchanged.
C2_ExpiredBeforeCompared ==
    \A e \in DOMAIN users :
        /\ ~Falsy(users[e].verification_code) =>
               /\ users[e].verification_expires_at # None
               /\ users[e].verification_expires_at[1] < now =>
                      \A code \in SuppliedCodes :
                          LET o == verify_email_handler(users, now, e, code)
                          IN  /\ o.status = 400
                              /\ o.body.detail = CodeExpired
                              /\ o.db = users
        /\ ~Falsy(users[e].reset_code) =>
               /\ users[e].reset_expires_at # None
               /\ users[e].reset_expires_at[1] < now =>
                      \A code \in SuppliedCodes, pw \in Passwords, salt \in Salts :
                          LET o == password_reset_confirm_handler(users, now, e, code, pw, salt)
                          IN  /\ o.status = 400
                              /\ o.body.detail = CodeExpired
                              /\ o.db = users

\* ConfirmPasswordReset with the right code, 11 minutes after the code was
\* generated, has been refused with CodeExpired
C2_Witness ==
    /\ resp.op = "password_reset_confirm"
    /\ resp.status = 400
    /\ resp.body.detail = CodeExpired
    /\ HasAccount(resp.email)
    /\ users[resp.email].reset_code = Some(strip(resp.arg))
    /\ users[resp.email].reset_expires_at = Some(CODE_TTL)
    /\ now = CODE_TTL + 1

\* The password given at the signup that created e's account
CreatedPw(e) == hist[e].created_pw[1]
Bounded(pw) == Slice(pw, PASSWORD_MAX)

\* The table of a run in which e never signed up
WithoutAccount(db, e) == [x \in DOMAIN db \ {e} |-> db[x]]

\* C3 as stated: after signup(e, pw1) and a second signup(e, pw2) with pw2
\* different from pw1 (and no password reset), login(e, pw1) succeeds and
\* login(e, pw2) fails.
C3_Original ==
    (/\ resp.op = "signup"
     /\ resp.status # 400
     /\ hist[resp.email].created_pw # Some(resp.arg)
     /\ ~hist[resp.email].pw_reset) =>
        /\ login_handler(users, resp.email, CreatedPw(resp.email)).status = 200
        /\ login_handler(users, resp.email, resp.arg).status = 401

\* C3 (amended): signup on an existing, unverified account replaces only
\* verification_code and verification_expires_at (now + 10 minutes) and
\* requests a verification email; password_hash is untouched.  So, while no
\* password reset has been confirmed, login with the creating password
\* succeeds, before and after verification, and login with another password
\* fails exactly when its first 72 characters differ from the creating
\* password's.
C3_ResendKeepsPassword ==
    \A e \in DOMAIN users :
        /\ ~users[e].is_verified =>
               \A pw \in Passwords, n \in randint(CODE_MIN, CODE_MAX),
                  salt \in Salts, smtp_ok \in BOOLEAN :
                   LET o == signup_handler(users, now, e, pw, n, salt, smtp_ok)
                   IN  /\ o.db = [users EXCEPT
                                     ![e].verification_code = Some(format_int(n)),
                                     ![e].verification_expires_at = Some(now + CODE_TTL)]
                       /\ o.db[e].password_hash = users[e].password_hash
                       /\ o.mail = Mail(e, format_int(n), "verification", smtp_ok)
                       /\ ~hist[e].pw_reset =>
                              /\ login_handler(o.db, e, CreatedPw(e)).status = 200
                              /\ Bounded(pw) # Bounded(CreatedPw(e)) =>
                                     login_handler(o.db, e, pw).status = 401
        /\ ~hist[e].pw_reset =>
               \A pw \in Passwords :
                   login_handler(users, e, pw).status =
                       IF Bounded(pw) = Bounded(CreatedPw(e)) THEN 200 ELSE 401

\* A second signup with another password has been served, and the creating
\* password still logs in
C3_Witness ==
    /\ resp.op = "signup"
    /\ resp.status = 200
    /\ HasAccount(resp.email)
    /\ ~hist[resp.email].pw_reset
    /\ Bounded(resp.arg) # Bounded(CreatedPw(resp.email))
    /\ login_handler(users, resp.email, CreatedPw(resp.email)).status = 200
    /\ login_handler(users, resp.email, resp.arg).status = 401

\* C4: signup on an existing, verified account fails with AlreadyRegistered
\* whatever the password, leaves the table unchanged and sends no email.
C4_VerifiedSignupRejected ==
    \A e \in DOMAIN users :
        users[e].is_verified =>
            \A pw \in Passwords, n \in randint(CODE_MIN, CODE_MAX),
               salt \in Salts, smtp_ok \in BOOLEAN :
                LET o == signup_handler(users, now, e, pw, n, salt, smtp_ok)
                IN  /\ o.status = 400
                    /\ o.body.detail = AlreadyRegistered
                    /\ o.db = users
                    /\ o.mail = None

\* A signup on a verified account has been refused
C4_Witness ==
    /\ resp.op = "signup"
    /\ resp.status = 400
    /\ resp.body.detail = AlreadyRegistered
    /\ resp.mail = None
    /\ HasAccount(resp.email)
    /\ users[resp.email].is_verified
    /\ users[resp.email].verification_code = None

\* C5: a failing login gets the same response (401, InvalidCredentials) as
\* the same request gets in the run where the account does not exist.
C5_LoginFailuresAlike ==
    \A e \in Emails, pw \in Passwords :
        LET o == login_handler(users, e, pw)
            absent == login_handler(WithoutAccount(users, e), e, pw)
        IN  o.status # 200 =>
                /\ View(o) = View(absent)
                /\ o.status = 401
                /\ o.body.detail = InvalidCredentials

\* A login with a wrong password on an existing account has been refused
C5_Witness ==
    /\ resp.op = "login"
    /\ resp.status = 401
    /\ resp.body.detail = InvalidCredentials
    /\ HasAccount(resp.email)
    /\ ~pwd_verify(Bounded(resp.arg), users[resp.email].password_hash)

\* C6 as stated: RequestPasswordReset answers an email that has an account
\* and was sent its code exactly as it answers the same email in the run
\* where it has no account.
C6_ResetRequestAlike ==
    \A e \in DOMAIN users, n \in randint(CODE_MIN, CODE_MAX) :
        View(password_reset_request_handler(users, now, e, n, TRUE))
            = View(password_reset_request_handler(WithoutAccount(users, e), now, e, n, TRUE))

\* C7: RequestPasswordReset on an email with no account returns success,
\* dispatches no notification, creates no account and changes no row.
C7_ResetRequestUnknownEmail ==
    \A e \in Emails \ DOMAIN users, n \in randint(CODE_MIN, CODE_MAX), smtp_ok \in BOOLEAN :
        LET o == password_reset_request_handler(users, now, e, n, smtp_ok)
        IN  /\ o.status = 200
            /\ o.body.ok
            /\ o.mail = None
            /\ o.db = users

\* RequestPasswordReset on an unknown email has been served while another
\* account, with a pending reset code of its own, exists
C7_Witness ==
    /\ resp.op = "password_reset_request"
    /\ ~HasAccount(resp.email)
    /\ resp.status = 200
    /\ resp.mail = None
    /\ \E e \in DOMAIN users : users[e].reset_code # None

\* C8 as stated: after ConfirmPasswordReset succeeds with a new password
\* different from the old one (a password that logged in before it), login
\* with the old password fails and login with the new one succeeds.
C8_Original ==
    \A e \in DOMAIN users, code \in SuppliedCodes, new \in Passwords, salt \in Salts,
       old \in Passwords :
        LET o == password_reset_confirm_handler(users, now, e, code, new, salt)
        IN  (o.status = 200 /\ login_handler(users, e, old).status = 200 /\ new # old) =>
                /\ login_handler(o.db, e, old).status = 401
                /\ login_handler(o.db, e, new).status = 200

\* C8 (amended): ConfirmPasswordReset with the pending, unexpired code
\* succeeds; after it login with the new password succeeds, and login with
\* a password that logged in before fails with InvalidCredentials exactly
\* when its first 72 characters differ from the new password's.
C8_ResetReplacesPassword ==
    \A e \in DOMAIN users, code \in SuppliedCodes, new \in Passwords, salt \in Salts,
       old \in Passwords :
        LET o == password_reset_confirm_handler(users, now, e, code, new, salt)
        IN  /\ (/\ users[e].reset_code = Some(strip(code))
                /\ users[e].reset_expires_at # None
                /\ users[e].reset_expires_at[1] >= now) => o.status = 200
            /\ (o.status = 200 /\ login_handler(users, e, old).status = 200) =>
                   /\ login_handler(o.db, e, new).status = 200
                   /\ Bounded(new) # Bounded(old) =>
                          /\ login_handler(o.db, e, old).status = 401
                          /\ login_handler(o.db, e, old).body.detail = InvalidCredentials
                   /\ Bounded(new) = Bounded(old) =>
                          login_handler(o.db, e, old).status = 200

\* A reset has been confirmed and the creating password no longer logs in
C8_Witness ==
    /\ resp.op = "password_reset_confirm"
    /\ resp.status = 200
    /\ users[resp.email].reset_code = None
    /\ login_handler(users, resp.email, CreatedPw(resp.email)).status = 401
    /\ \E pw \in Passwords : login_handler(users, resp.email, pw).status = 200

\* C9: when signup (new account or resend) or RequestPasswordReset answers
\* with a server error because the email could not be sent, the write is
\* kept: the account exists with the new code and expiry, and the code is
\* accepted by VerifyEmail / ConfirmPasswordReset within the 10 minutes.
C9_WriteKeptWhenMailFails ==
    /\ \A e \in SignupEmails, pw \in Passwords, n \in randint(CODE_MIN, CODE_MAX),
          salt \in Salts :
           (e \in DOMAIN users => ~users[e].is_verified) =>
               LET o == signup_handler(users, now, e, pw, n, salt, FALSE)
               IN  /\ o.status = 500
                   /\ e \in DOMAIN o.db
                   /\ o.db[e].verification_code = Some(format_int(n))
                   /\ o.db[e].verification_expires_at = Some(now + CODE_TTL)
                   /\ \A t \in now..(now + CODE_TTL) :
                          verify_email_handler(o.db, t, e, format_int(n)).status = 200
    /\ \A e \in DOMAIN users, n \in randint(CODE_MIN, CODE_MAX) :
           LET o == password_reset_request_handler(users, now, e, n, FALSE)
           IN  /\ o.status = 500
               /\ o.db[e].reset_code = Some(format_int(n))
               /\ o.db[e].reset_expires_at = Some(now + CODE_TTL)
               /\ \A t \in now..(now + CODE_TTL), pw \in Passwords, salt \in Salts :
                      password_reset_confirm_handler(o.db, t, e, format_int(n), pw, salt).status
                          = 200

\* A signup has been answered with a server error, its code undelivered,
\* and the table holds that code
C9_Witness ==
    /\ resp.op = "signup"
    /\ resp.status = 500
    /\ resp.mail # None
    /\ ~resp.mail[1].delivered
    /\ HasAccount(resp.email)
    /\ users[resp.email].verification_code = Some(resp.mail[1].code)
    /\ users[resp.email].verification_expires_at = Some(now + CODE_TTL)

\* C10 as stated: for an account that was never verified, login with the
\* password given at the creating signup succeeds and returns id and email.
C10_Original ==
    \A e \in DOMAIN users :
        ~users[e].is_verified =>
            LET o == login_handler(users, e, CreatedPw(e))
            IN  o.status = 200 /\ o.body = [ok |-> TRUE, id |-> users[e].id, email |-> e]

\* C10 (amended): for an account that was never verified and whose password
\* no ConfirmPasswordReset has replaced, login with the creating password
\* succeeds and returns id and email.
C10_LoginWithoutVerification ==
    \A e \in DOMAIN users :
        (~users[e].is_verified /\ ~hist[e].pw_reset) =>
            LET o == login_handler(users, e, CreatedPw(e))
            IN  o.status = 200 /\ o.body = [ok |-> TRUE, id |-> users[e].id, email |-> e]

\* A login on an unverified account has succeeded
C10_Witness ==
    /\ resp.op = "login"
    /\ resp.status = 200
    /\ ~users[resp.email].is_verified
    /\ ~hist[resp.email].pw_reset
    /\ resp.arg = CreatedPw(resp.email)
    /\ resp.body = [ok |-> TRUE, id |-> users[resp.email].id, email |-> resp.email]

\* C11: only the most recently generated code of a flow is valid.  A
\* RequestPasswordReset on an account with a pending reset code, and a signup
\* on an unverified account with a pending verification code, store a new
\* code; from then on, at the first and at the last minute of what is left
\* of the earlier code's own window, the earlier code (when it differs from
\* the new one) is refused with InvalidCode and the new code is accepted.
C11_LatestCodeOnly ==
    \A e \in DOMAIN users, n \in randint(CODE_MIN, CODE_MAX), smtp_ok \in BOOLEAN :
        /\ (/\ ~Falsy(users[e].reset_code)
            /\ users[e].reset_expires_at # None
            /\ users[e].reset_code[1] # format_int(n)) =>
               LET o == password_reset_request_handler(users, now, e, n, smtp_ok)
               IN  \A t \in {now, users[e].reset_expires_at[1]},
                      pw \in Passwords, salt \in Salts :
                       LET old == password_reset_confirm_handler(
                                      o.db, t, e, users[e].reset_code[1], pw, salt)
                           new == password_reset_confirm_handler(
                                      o.db, t, e, format_int(n), pw, salt)
                       IN  /\ old.status = 400
                           /\ old.body.detail = InvalidCode
                           /\ new.status = 200
        /\ (/\ ~users[e].is_verified
            /\ ~Falsy(users[e].verification_code)
            /\ users[e].verification_expires_at # None
            /\ users[e].verification_code[1] # format_int(n)) =>
               \A pw \in Passwords, salt \in Salts :
                   LET o == signup_handler(users, now, e, pw, n, salt, smtp_ok)
                   IN  \A t \in {now, users[e].verification_expires_at[1]} :
                           LET old == verify_email_handler(
                                          o.db, t, e, users[e].verification_code[1])
                               new == verify_email_handler(o.db, t, e, format_int(n))
                           IN  /\ old.status = 400
                               /\ old.body.detail = InvalidCode
                               /\ new.status = 200

\* A second signup has been served at minute 10 for an unverified account
\* that existed at minute 0 (its reset code dates from then), so that its
\* earlier verification code is still within its window; the table holds
\* the code of the second signup, accepts it and refuses the other one
C11_Witness ==
    /\ resp.op = "signup"
    /\ resp.status = 200
    /\ HasAccount(resp.email)
    /\ now = CODE_TTL
    /\ users[resp.email].reset_expires_at = Some(CODE_TTL)
    /\ users[resp.email].verification_code = Some(resp.mail[1].code)
    /\ users[resp.email].verification_expires_at = Some(now + CODE_TTL)
    /\ verify_email_handler(users, now, resp.email, resp.mail[1].code).status = 200
    /\ \E c \in Codes :
           /\ c # resp.mail[1].code
           /\ verify_email_handler(users, now, resp.email, c).body = [detail |-> InvalidCode]

\* C13 as stated: after a VerifyEmail or ConfirmPasswordReset that returned
\* CodeExpired, the stored code and its expiry are null and a call with
\* that code returns InvalidCode.
C13_ExpiredCodeCleared ==
    /\ (resp.op = "verify_email" /\ resp.status = 400 /\ resp.body.detail = CodeExpired) =>
           /\ users[resp.email].verification_code = None
           /\ users[resp.email].verification_expires_at = None
           /\ verify_email_handler(users, now, resp.email, resp.arg).body
                  = [detail |-> InvalidCode]
    /\ (/\ resp.op = "password_reset_confirm"
        /\ resp.status = 400
        /\ resp.body.detail = CodeExpired) =>
           /\ users[resp.email].reset_code = None
           /\ users[resp.email].reset_expires_at = None
           /\ \A pw \in Passwords, salt \in Salts :
                  password_reset_confirm_handler(users, now, resp.email, resp.arg, pw, salt).body
                      = [detail |-> InvalidCode]

\* C14: password_hash of an existing account is left as it is by VerifyEmail
\* (accepted or refused), Login, RequestPasswordReset, signup on the
\* existing account and every refused ConfirmPasswordReset; only the
\* creating signup and an accepted ConfirmPasswordReset write it.
C14_PasswordHashWriters ==
    \A e \in DOMAIN users :
        LET kept(o) == e \in DOMAIN o.db /\ o.db[e].password_hash = users[e].password_hash
        IN  /\ \A e2 \in Emails, code \in SuppliedCodes :
                   kept(verify_email_handler(users, now, e2, code))
            /\ \A e2 \in Emails, pw \in Passwords :
                   kept(login_handler(users, e2, pw))
            /\ \A e2 \in Emails, n \in randint(CODE_MIN, CODE_MAX), smtp_ok \in BOOLEAN :
                   kept(password_reset_request_handler(users, now, e2, n, smtp_ok))
            /\ \A pw \in Passwords, n \in randint(CODE_MIN, CODE_MAX), salt \in Salts,
                  smtp_ok \in BOOLEAN :
                   kept(signup_handler(users, now, e, pw, n, salt, smtp_ok))
            /\ \A e2 \in Emails, code \in SuppliedCodes, pw \in Passwords, salt \in Salts :
                   LET o == password_reset_confirm_handler(users, now, e2, code, pw, salt)
                   IN  (o.status # 200 \/ e2 # e) => kept(o)

\* A login has succeeded on an account that has since its creation been
\* verified and sent a reset code, and whose hash is still that of the
\* creating password
C14_Witness ==
    /\ resp.op = "login"
    /\ resp.status = 200
    /\ users[resp.email].is_verified
    /\ users[resp.email].reset_code # None
    /\ ~hist[resp.email].pw_reset
    /\ pwd_verify(Bounded(CreatedPw(resp.email)), users[resp.email].password_hash)

C19_RefusalsChangeNothing ==
    /\ \A e \in Emails, code \in SuppliedCodes :
           LET o == verify_email_handler(users, now, e, code)
           IN  o.status # 200 => o.db = users
    /\ \A e \in Emails, code \in SuppliedCodes, pw \in Passwords, salt \in Salts :
           LET o == password_reset_confirm_handler(users, now, e, code, pw, salt)
           IN  o.status # 200 => o.db = users
    /\ \A e \in Emails, pw \in Passwords :
           LET o == login_handler(users, e, pw)
           IN  o.status # 200 => o.db = users
    /\ \A e \in DOMAIN users :
           /\ (/\ users[e].verification_code # None
               /\ users[e].verification_expires_at[1] >= now) =>
                  verify_email_handler(users, now, e, users[e].verification_code[1]).status
                      = 200
           /\ (/\ users[e].reset_code # None
               /\ users[e].reset_expires_at[1] >= now) =>
                  \A pw \in Passwords, salt \in Salts :
                      password_reset_confirm_handler(
                          users, now, e, users[e].reset_code[1], pw, salt).status = 200

\* A VerifyEmail with a wrong code has been refused, at the last minute of
\* the pending code's window, and the pending code is still accepted
C19_Witness ==
    /\ resp.op = "verify_email"
    /\ resp.status = 400
    /\ resp.body.detail = InvalidCode
    /\ HasAccount(resp.email)
    /\ users[resp.email].verification_code # None
    /\ users[resp.email].verification_code # Some(strip(resp.arg))
    /\ users[resp.email].verification_expires_at = Some(now)
    /\ verify_email_handler(users, now, resp.email,
                            users[resp.email].verification_code[1]).status = 200

\* C20: an unverified account is never stuck.  In every reachable state where
\* an account is not verified, a signup on its email is accepted (not
\* AlreadyRegistered) and stores a fresh code with expiry now + 10 minutes,
\* and a VerifyEmail with that code at any minute up to the expiry is
\* accepted and sets is_verified.
C20_UnverifiedNeverStuck ==
    \A e \in DOMAIN users :
        ~users[e].is_verified =>
            \A pw \in Passwords, n \in randint(CODE_MIN, CODE_MAX), salt \in Salts,
               smtp_ok \in BOOLEAN :
                LET o == signup_handler(users, now, e, pw, n, salt, smtp_ok)
                IN  /\ o.body # [detail |-> AlreadyRegistered]
                    /\ o.status = IF smtp_ok THEN 200 ELSE 500
                    /\ o.db[e].verification_code = Some(format_int(n))
                    /\ o.db[e].verification_expires_at = Some(now + CODE_TTL)
                    /\ \A t \in {now, now + CODE_TTL} :
                           LET v == verify_email_handler(o.db, t, e, format_int(n))
                           IN  v.status = 200 /\ v.db[e].is_verified

\* At minute 11 a signup has been served for an unverified account that
\* existed at minute 0 (its reset code dates from then), so that its earlier
\* verification code had expired; the fresh code is accepted
C20_Witness ==
    /\ resp.op = "signup"
    /\ resp.status = 200
    /\ now = CODE_TTL + 1
    /\ HasAccount(resp.email)
    /\ ~users[resp.email].is_verified
    /\ users[resp.email].reset_expires_at = Some(CODE_TTL)
    /\ users[resp.email].verification_code = Some(resp.mail[1].code)
    /\ users[resp.email].verification_expires_at = Some(now + CODE_TTL)
    /\ verify_email_handler(users, now, resp.email, resp.mail[1].code).status = 200

----------------------------------------------------------------------------
\* Claims about concurrent requests, under SpecConc

\* C12: in every reachable state a row's verification_code is set only
\* while is_verified is false, also when requests on one email interleave
\* between their read and their commit.
C12_CodeOnlyWhileUnverified ==
    \A e \in DOMAIN users :
        users[e].verification_code # None => ~users[e].is_verified

\* C15: there is at most one row per email: no email has a second row
\* inserted, and the commit of a signup that read no account but finds the
\* email registered is rejected by the unique index: it leaves the table,
\* so the first row's password_hash and verification_code, as it was,
\* sends no email and answers 500.
C15_OneRowPerEmail ==
    [][/\ \A e \in Emails : tally'[e].inserts <= 1
       /\ \A w \in Workers :
              (/\ sessions[w].state = "pending"
               /\ sessions[w].stmt.kind = "insert"
               /\ sessions'[w] = Idle
               /\ sessions[w].email \in DOMAIN users)
              => /\ users' = users
                 /\ resp'.status = 500
                 /\ resp'.mail = None]_vars

\* A signup that had read no account has been answered 500 with no email,
\* the email having one row, which is another signup's: its code is not the
\* one the losing signup generated or its password is not the losing one's
C15_Witness ==
    /\ resp.op = "signup"
    /\ resp.status = 500
    /\ resp.body = [text |-> InternalServerError]
    /\ resp.mail = None
    /\ HasAccount(resp.email)
    /\ tally[resp.email].inserts = 1
    /\ ~pwd_verify(Slice(resp.arg, PASSWORD_MAX), users[resp.email].password_hash)

\* C16: is_verified, once true, is true in every later state, a row is
\* inserted with is_verified false, and is_verified becomes true only by
\* the commit of a verify_email request answered 200; under any
\* interleaving of the requests' reads and commits.
C16_VerifiedForGood ==
    [][/\ \A e \in DOMAIN users :
              /\ e \in DOMAIN users'
              /\ users[e].is_verified => users'[e].is_verified
              /\ (~users[e].is_verified /\ users'[e].is_verified) =>
                     /\ resp'.op = "verify_email"
                     /\ resp'.email = e
                     /\ resp'.status = 200
       /\ \A e \in DOMAIN users' \ DOMAIN users : ~users'[e].is_verified]_vars

\* A signup that had read the account as unverified has committed its
\* resend after a verify_email committed: the row carries the resent code
\* and is still verified
C16_Witness ==
    /\ resp.op = "signup"
    /\ resp.status = 200
    /\ resp.mail # None
    /\ HasAccount(resp.email)
    /\ users[resp.email].is_verified
    /\ users[resp.email].verification_code = Some(resp.mail[1].code)

\* C17: with one reset code at most one password_reset_confirm succeeds,
\* also when two of them read the pending code before either commits.
C17_OneConfirmPerCode ==
    \A e \in Emails : tally[e].confirms <= 1

====
